---- MODULE Spec2Model ----
(***************************************************************************)
(* A model of scripts/game.js: the session controller (initGame, gameLoop, *)
(* gameOver), the simulation step updateGame with its five phases, the     *)
(* entity classes Player, Bullet, Zombie and Item, and the input handlers. *)
(*                                                                         *)
(* Numbers.  Lengths and coordinates are integers in tenths of a pixel     *)
(* (Px(n) is n pixels).  An angle is kept as its direction vector          *)
(* <<cos, sin>> in thousandths.  Damage multipliers are in tenths (10 is   *)
(* 1x, 15 is 1.5x).  Times are milliseconds as read from Date.now(); one   *)
(* tick reads one clock value (the reads of one callback are taken to be   *)
(* equal), and the clock advances between ticks.                           *)
(*                                                                         *)
(* Input comes from the keyboard, the mouse and the joystick.  The touch   *)
(* listeners of the canvas and of the fire button write the same `mouse'   *)
(* fields as the mouse listeners and are left at rest.                     *)
(*                                                                         *)
(* One action is one callback of the page run to completion.  What happens *)
(* inside a tick is kept in the history variables `over' and `log', which  *)
(* the program does not have and never reads.                              *)
(***************************************************************************)
EXTENDS Integers, Sequences, FiniteSets, TLC

VARIABLES
    canvas,               \* [width, height] of the arena
    player,               \* the Player object (defined = FALSE before the first start)
    bullets,              \* sequence of Bullet
    zombies,              \* sequence of Zombie
    items,                \* sequence of Item
    score,
    lastZombieSpawnTime,
    isGameOver,
    gameLoopId,           \* handle of the last requested frame, 0 when undefined
    keys,                 \* keyboard direction flags
    mouse,                \* [x, y, isFiring]
    joystickState,        \* [active, dx, dy], dx and dy in thousandths
    messageScore,         \* score text of the message box, -1 for the intro text
    messagesShown,        \* whether the message box is visible
    now,                  \* Date.now() as read by the latest tick
    pending,              \* handles of the frame callbacks requested and not yet run
    nextId,               \* the next handle requestAnimationFrame returns
    starts,               \* history: number of initGame calls
    inputs,               \* history: number of presses, pointer moves and resizes
    drops,                \* history: number of ticks in which a dying zombie left an item
    op,                   \* history: the callback that ran last
    streak,               \* history: initGame calls in a row, the latest callback included
    kills,                \* history: zombies removed since the last initGame
    over,                 \* history: where gameOver() was first called since the last start
    log                   \* history: what the latest tick did

vars == <<canvas, player, bullets, zombies, items, score, lastZombieSpawnTime,
          isGameOver, gameLoopId, keys, mouse, joystickState, messageScore,
          messagesShown, now, pending, nextId, starts, inputs, drops, op, streak, kills,
          over, log>>

----------------------------------------------------------------------------
(* Bounds of the model *)

MaxHandle == 26      \* frames requested since page load (ticks plus starts)
MaxStarts == 3       \* initGame calls
MaxInputs == 1       \* key and button presses, pointer moves and resizes
MaxDrops == 1        \* ticks in which a dying zombie leaves an item
Epoch == 5000        \* Date.now() at page load; any value above every delay behaves alike

TickDeltas == {1001}                     \* clock advance between two ticks
CanvasSizes == {40}                      \* min(window.innerWidth * 0.9, 800), in pixels
InputKeys == {"a"}                       \* keys pressed and released
DropChoices == {"none", "triple_shot", "health_pack", "damage_boost"}
SpawnChoices == {[side |-> 3, frac |-> 0]}

----------------------------------------------------------------------------
(* Game configuration *)

Px(n) == n * 10

PLAYER_SIZE == 20
PLAYER_SPEED == 5
BULLET_SIZE == 5
BULLET_SPEED == 10
ZOMBIE_SIZE == 25
ZOMBIE_SPEED == Px(3) \div 2
ZOMBIE_SPAWN_INTERVAL == 1500
MAX_HEALTH == 100
ZOMBIE_DAMAGE == 10
ITEM_SIZE == 15
UPGRADE_DURATION == 10000
ITEM_LIFETIME == 15000
DAMAGE_BOOST_MULTIPLIER == 15
ATTACK_DELAY == 1000
ZOMBIE_HEALTH == 30
HEALTH_RESTORED == 30
BASE_DAMAGE == 10
DEFAULT_SHOT_DELAY == 200
TRIPLE_SHOT_DELAY == 300
SCORE_PER_KILL == 10
SPAWN_RATE_FACTOR == 8
MAX_SPAWN_REDUCTION == 1000
MUZZLE_OFFSET == 5
JOYSTICK_RADIUS == 50
COS_SPREAD == 939
SIN_SPREAD == 343

----------------------------------------------------------------------------
(* Arithmetic *)

Min(a, b) == IF a < b THEN a ELSE b
Max(a, b) == IF a > b THEN a ELSE b

\* a / b rounded to the nearest integer, b > 0
RoundDiv(a, b) ==
    IF a >= 0 THEN (2 * a + b) \div (2 * b)
    ELSE -((2 * (-a) + b) \div (2 * b))

Abs(a) == IF a < 0 THEN -a ELSE a

\* the largest r in lo..hi with r * r <= n
RECURSIVE SqrtSearch(_, _, _)
SqrtSearch(n, lo, hi) ==
    IF lo >= hi THEN lo
    ELSE IF ((lo + hi + 1) \div 2) * ((lo + hi + 1) \div 2) <= n
    THEN SqrtSearch(n, (lo + hi + 1) \div 2, hi)
    ELSE SqrtSearch(n, lo, (lo + hi + 1) \div 2 - 1)

\* r or r + 1, whichever is the nearer to the square root of n, r the root rounded down
nearest(n, r) == IF n - r * r > r THEN r + 1 ELSE r

\* Math.sqrt(dx * dx + dy * dy), rounded to the nearest integer; the root lies
\* between the larger of |dx|, |dy| and their sum
Hypot(dx, dy) ==
    nearest(dx * dx + dy * dy,
            SqrtSearch(dx * dx + dy * dy, Max(Abs(dx), Abs(dy)), Abs(dx) + Abs(dy)))

\* square of dist(x1, y1, x2, y2)
dist2(x1, y1, x2, y2) == (x2 - x1) * (x2 - x1) + (y2 - y1) * (y2 - y1)

\* dist(a, b) < sizeA / 2 + sizeB / 2, both sides doubled and squared
Touching(a, b, sizeA, sizeB) ==
    4 * dist2(a.x, a.y, b.x, b.y) < (sizeA + sizeB) * (sizeA + sizeB)

\* <<dx, dy>> of length d scaled to length 1000
unit(dx, dy, d) == <<RoundDiv(1000 * dx, d), RoundDiv(1000 * dy, d)>>

\* the direction <<cos, sin>> of Math.atan2(dy, dx); atan2(0, 0) is 0
Direction(dx, dy) ==
    IF dx = 0 /\ dy = 0 THEN <<1000, 0>>
    ELSE unit(dx, dy, Hypot(dx, dy))

\* the direction of angle + k * spread, k in {-1, 0, 1}, spread = 0.35 rad
Spread(dir, k) ==
    IF k = 0 THEN dir
    ELSE <<RoundDiv(dir[1] * COS_SPREAD - k * dir[2] * SIN_SPREAD, 1000),
           RoundDiv(dir[2] * COS_SPREAD + k * dir[1] * SIN_SPREAD, 1000)>>

----------------------------------------------------------------------------
(* Entities *)

NoPlayer ==
    [defined |-> FALSE, x |-> 0, y |-> 0, size |-> 0, health |-> 0,
     lastShotTime |-> 0, tripleShotEndTime |-> 0, damageBoostEndTime |-> 0,
     currentShotDelay |-> 0, defaultShotDelay |-> 0, bulletDamageMultiplier |-> 0]

\* new Player(x, y, size)
NewPlayer(x, y, size) ==
    [defined |-> TRUE, x |-> x, y |-> y, size |-> size, health |-> MAX_HEALTH,
     lastShotTime |-> 0, tripleShotEndTime |-> 0, damageBoostEndTime |-> 0,
     currentShotDelay |-> DEFAULT_SHOT_DELAY, defaultShotDelay |-> DEFAULT_SHOT_DELAY,
     bulletDamageMultiplier |-> 10]

\* new Bullet(x, y, size, angle)
NewBullet(x, y, size, angle) ==
    [x |-> x, y |-> y, size |-> size,
     vx |-> RoundDiv(angle[1] * Px(BULLET_SPEED), 1000),
     vy |-> RoundDiv(angle[2] * Px(BULLET_SPEED), 1000)]

\* new Zombie(x, y, size); hits is the history of the hits it has taken
NewZombie(x, y, size) ==
    [x |-> x, y |-> y, size |-> size, health |-> ZOMBIE_HEALTH,
     lastAttackTime |-> 0, hits |-> <<>>]

\* new Item(x, y, size, type), created at time t
NewItem(x, y, size, type, t) ==
    [x |-> x, y |-> y, size |-> size, type |-> type, creationTime |-> t]

\* Bullet.update
BulletUpdate(b) == [b EXCEPT !.x = @ + b.vx, !.y = @ + b.vy]

\* Bullet.isOffScreen
isOffScreen(b) ==
    b.x < 0 \/ b.x > canvas.width \/ b.y < 0 \/ b.y > canvas.height

----------------------------------------------------------------------------
(* The session as the tick works on it, and the histories *)

EmptyLog ==
    [ran |-> FALSE, score0 |-> 0, attacks |-> 0, shots |-> 0, spawned |-> 0, expired |-> 0,
     dropped |-> 0, lapsed |-> <<>>, shotLog |-> <<>>,
     zombies0 |-> 0, bullets0 |-> 0, items0 |-> 0,
     attackLog |-> <<>>, heldBack |-> <<>>, heldShots |-> <<>>,
     step |-> <<0, 0>>, last0 |-> 0,
     collected |-> <<>>, bulletLog |-> <<>>, hitLog |-> <<>>, killed |-> <<>>]

NotOver == [phase |-> 0, snap |-> <<>>]

World ==
    [player |-> player, bullets |-> bullets, zombies |-> zombies, items |-> items,
     score |-> score, lastZombieSpawnTime |-> lastZombieSpawnTime,
     isGameOver |-> isGameOver, messageScore |-> messageScore,
     messagesShown |-> messagesShown, pending |-> pending, now |-> now,
     over |-> over, log |-> EmptyLog]

\* what the claims call the entity state of a session
Entities(w) ==
    [health |-> w.player.health, x |-> w.player.x, y |-> w.player.y,
     score |-> w.score, bullets |-> w.bullets,
     zombies |-> [i \in 1..Len(w.zombies) |->
                    [x |-> w.zombies[i].x, y |-> w.zombies[i].y,
                     health |-> w.zombies[i].health]],
     items |-> w.items]

\* gameOver(), called in phase `phase' of the tick
gameOver(w, phase) ==
    [w EXCEPT !.isGameOver = TRUE,
              !.pending = @ \ {gameLoopId},
              !.messageScore = w.score,
              !.messagesShown = TRUE,
              !.over = IF @.phase = 0
                       THEN [phase |-> phase, snap |-> <<Entities(w)>>]
                       ELSE @]

----------------------------------------------------------------------------
(* Player *)

\* a bullet leaving the muzzle in direction a
bulletFrom(p, a, reach) ==
    NewBullet(p.x + RoundDiv(a[1] * reach, 1000),
              p.y + RoundDiv(a[2] * reach, 1000), Px(BULLET_SIZE), a)

\* Player._createBullet(angle + k * spread)
createBullet(w, angle, k) ==
    [w EXCEPT !.bullets =
        Append(@, bulletFrom(w.player, Spread(angle, k),
                             w.player.size \div 2 + Px(MUZZLE_OFFSET)))]

\* variant: one bullet whatever tripleShotEndTime says
volley_Single(w, angle) == createBullet(w, angle, 0)

\* the bullets of one shot: one, or three in a spread while triple-shot is active
volley(w, angle) ==
    IF ~(w.player.tripleShotEndTime > w.now)
    THEN createBullet(w, angle, 0)
    ELSE createBullet(createBullet(createBullet(w, angle, -1), angle, 0), angle, 1)

\* the history of one shot: what was appended to the bullets
shotRecord(w, angle, bs) ==
    [triple |-> w.player.tripleShotEndTime > w.now, aim |-> angle,
     created |-> SubSeq(bs, Len(w.bullets) + 1, Len(bs)),
     t |-> w.now, last |-> w.player.lastShotTime, delay |-> w.player.currentShotDelay]

\* the body of Player.shoot once the shot delay has passed
fire(w, angle) ==
    [volley(w, angle)
     EXCEPT !.player.lastShotTime = w.now, !.log.shots = @ + 1,
            !.log.shotLog = Append(@, shotRecord(w, angle, volley(w, angle).bullets))]

\* variant: every call of shoot fires
shoot_NoDelay(w) == fire(w, Direction(mouse.x - w.player.x, mouse.y - w.player.y))

\* Player.shoot; the history keeps the shots the delay held back
shoot(w) ==
    IF w.now - w.player.lastShotTime > w.player.currentShotDelay
    THEN fire(w, Direction(mouse.x - w.player.x, mouse.y - w.player.y))
    ELSE [w EXCEPT !.log.heldShots =
                      Append(@, [t |-> w.now, last |-> w.player.lastShotTime,
                                 delay |-> w.player.currentShotDelay])]

\* the step the keys ask for along one axis
keyStep(plus, minus) ==
    (IF plus THEN Px(PLAYER_SPEED) ELSE 0) - (IF minus THEN Px(PLAYER_SPEED) ELSE 0)

\* the step of the joystick along one axis, j in thousandths
joystickStep(j) ==
    IF joystickState.active THEN RoundDiv(j * Px(PLAYER_SPEED), 1000) ELSE 0

\* one component d of the step <<dx, dy>>, the diagonal normalised to PLAYER_SPEED
normalised(d, dx, dy) ==
    IF dx # 0 /\ dy # 0 THEN RoundDiv(d * Px(PLAYER_SPEED), Hypot(dx, dy)) ELSE d

\* the player moved by <<dx, dy>> and kept within bounds, the upgrade effects updated
moved(w, dx, dy, half) ==
    [w EXCEPT !.log.step = <<normalised(dx, dx, dy), normalised(dy, dx, dy)>>,
              !.player.x = Max(half, Min(canvas.width - half, @ + normalised(dx, dx, dy))),
              !.player.y = Max(half, Min(canvas.height - half, @ + normalised(dy, dx, dy))),
              !.player.currentShotDelay =
                  IF w.player.tripleShotEndTime > w.now THEN TRIPLE_SHOT_DELAY
                  ELSE w.player.defaultShotDelay,
              !.player.bulletDamageMultiplier =
                  IF w.player.damageBoostEndTime > w.now THEN DAMAGE_BOOST_MULTIPLIER
                  ELSE 10]

\* the end of Player.update: if (mouse.isFiring) this.shoot()
firing(w) == IF mouse.isFiring THEN shoot(w) ELSE w

\* Player.update
PlayerUpdate(w) ==
    firing(moved(w, keyStep(keys.d \/ keys.right, keys.a \/ keys.left)
                      + joystickStep(joystickState.dx),
                    keyStep(keys.s \/ keys.down, keys.w \/ keys.up)
                      + joystickStep(joystickState.dy),
                    w.player.size \div 2))

\* variant: a health pack adds its 30 with no upper limit
applyUpgrade_NoLimit(w, type) ==
    IF type = "health_pack"
    THEN [w EXCEPT !.player.health = @ + HEALTH_RESTORED]
    ELSE IF type = "triple_shot"
    THEN [w EXCEPT !.player.tripleShotEndTime = w.now + UPGRADE_DURATION,
                   !.player.currentShotDelay = TRIPLE_SHOT_DELAY]
    ELSE IF type = "damage_boost"
    THEN [w EXCEPT !.player.damageBoostEndTime = w.now + UPGRADE_DURATION]
    ELSE w

\* variant: an upgrade collected while active is added to the time left
applyUpgrade_Extend(w, type) ==
    IF type = "health_pack"
    THEN [w EXCEPT !.player.health = Min(MAX_HEALTH, @ + HEALTH_RESTORED)]
    ELSE IF type = "triple_shot"
    THEN [w EXCEPT !.player.tripleShotEndTime = Max(@, w.now) + UPGRADE_DURATION,
                   !.player.currentShotDelay = TRIPLE_SHOT_DELAY]
    ELSE IF type = "damage_boost"
    THEN [w EXCEPT !.player.damageBoostEndTime = Max(@, w.now) + UPGRADE_DURATION]
    ELSE w

\* variant: the last branch takes every type that is left
applyUpgrade_ElseBoost(w, type) ==
    IF type = "health_pack"
    THEN [w EXCEPT !.player.health = Min(MAX_HEALTH, @ + HEALTH_RESTORED)]
    ELSE IF type = "triple_shot"
    THEN [w EXCEPT !.player.tripleShotEndTime = w.now + UPGRADE_DURATION,
                   !.player.currentShotDelay = TRIPLE_SHOT_DELAY]
    ELSE [w EXCEPT !.player.damageBoostEndTime = w.now + UPGRADE_DURATION]

\* Player.applyUpgrade(type)
applyUpgrade(w, type) ==
    IF type = "health_pack"
    THEN [w EXCEPT !.player.health = Min(MAX_HEALTH, @ + HEALTH_RESTORED)]
    ELSE IF type = "triple_shot"
    THEN [w EXCEPT !.player.tripleShotEndTime = w.now + UPGRADE_DURATION,
                   !.player.currentShotDelay = TRIPLE_SHOT_DELAY]
    ELSE IF type = "damage_boost"
    THEN [w EXCEPT !.player.damageBoostEndTime = w.now + UPGRADE_DURATION]
    ELSE w

----------------------------------------------------------------------------
(* Zombie *)

\* the end of Zombie.attackPlayer: gameOver() when the player is down
checkHealth(w) == IF w.player.health <= 0 THEN gameOver(w, 2) ELSE w

\* the body of the attack: the damage and the time stamp
struck(w, i) ==
    [w EXCEPT !.player.health = @ - ZOMBIE_DAMAGE,
              !.zombies[i].lastAttackTime = w.now,
              !.log.attacks = @ + 1]

\* the history of one attack: w before it, w1 after it
attackRecord(w, w1, i) ==
    [zombie |-> i, t |-> w.now, last |-> w.zombies[i].lastAttackTime,
     touching |-> Touching(w.zombies[i], w.player, w.zombies[i].size, w.player.size),
     before |-> w.player.health, after |-> w1.player.health,
     stamp |-> w1.zombies[i].lastAttackTime]

\* variant: the zombie attacks whenever it is called, whatever its last attack
attackPlayer_NoDelay(w, i) ==
    checkHealth([struck(w, i) EXCEPT
                   !.log.attackLog = Append(@, attackRecord(w, struck(w, i), i))])

\* Zombie.attackPlayer, for the zombie at index i; the history keeps the
\* attacks made and the attacks the delay held back
attackPlayer(w, i) ==
    IF w.now - w.zombies[i].lastAttackTime > ATTACK_DELAY
    THEN checkHealth([struck(w, i) EXCEPT
                        !.log.attackLog = Append(@, attackRecord(w, struck(w, i), i))])
    ELSE [w EXCEPT !.log.heldBack =
                      Append(@, [zombie |-> i, t |-> w.now,
                                 last |-> w.zombies[i].lastAttackTime])]

\* the zombie at index i after its step in direction angle
stepped(w, i, angle) ==
    [w EXCEPT !.zombies[i].x = @ + RoundDiv(angle[1] * ZOMBIE_SPEED, 1000),
              !.zombies[i].y = @ + RoundDiv(angle[2] * ZOMBIE_SPEED, 1000)]

\* the collision test of Zombie.update, after the step
contact(w, i) ==
    IF Touching(w.zombies[i], w.player, w.zombies[i].size, w.player.size)
    THEN attackPlayer(w, i)
    ELSE w

\* Zombie.update, for the zombie at index i
ZombieUpdate(w, i) ==
    contact(stepped(w, i, Direction(w.player.x - w.zombies[i].x,
                                    w.player.y - w.zombies[i].y)), i)

\* zombies.forEach(zombie => zombie.update()), from index i on
RECURSIVE ZombiesUpdate(_, _)
ZombiesUpdate(w, i) ==
    IF i > Len(w.zombies) THEN w
    ELSE ZombiesUpdate(ZombieUpdate(w, i), i + 1)

----------------------------------------------------------------------------
(* updateGame, phase by phase *)

\* a point at fraction frac (in thousandths) of a side of length len
along(frac, len) == (frac * len) \div 1000

\* spawnZombie, with the side and position Math.random gave
spawnZombie(w, sp) ==
    [w EXCEPT !.zombies =
                 Append(@, NewZombie(
                     CASE sp.side = 0 -> along(sp.frac, canvas.width)
                       [] sp.side = 1 -> canvas.width + Px(ZOMBIE_SIZE)
                       [] sp.side = 2 -> along(sp.frac, canvas.width)
                       [] OTHER -> -Px(ZOMBIE_SIZE),
                     CASE sp.side = 0 -> -Px(ZOMBIE_SIZE)
                       [] sp.side = 1 -> along(sp.frac, canvas.height)
                       [] sp.side = 2 -> canvas.height + Px(ZOMBIE_SIZE)
                       [] OTHER -> along(sp.frac, canvas.height),
                     Px(ZOMBIE_SIZE))),
              !.log.spawned = @ + 1]

\* variant: the reduction of the interval is not capped
currentSpawnInterval_NoCap(s) == ZOMBIE_SPAWN_INTERVAL - s * SPAWN_RATE_FACTOR

\* the spawn interval at a score
currentSpawnInterval(s) ==
    ZOMBIE_SPAWN_INTERVAL - Min(s * SPAWN_RATE_FACTOR, MAX_SPAWN_REDUCTION)

\* 1. spawning
Spawning(w, sp) ==
    IF w.now - w.lastZombieSpawnTime > currentSpawnInterval(w.score)
    THEN [spawnZombie(w, sp) EXCEPT !.lastZombieSpawnTime = w.now]
    ELSE w

\* bullets.forEach(bullet => bullet.update())
BulletsUpdate(w) ==
    [w EXCEPT !.bullets = [i \in 1..Len(w.bullets) |-> BulletUpdate(w.bullets[i])]]

\* 2. update entities: the player, every bullet, every zombie
UpdateEntities(w) == ZombiesUpdate(BulletsUpdate(PlayerUpdate(w)), 1)

\* an item the player touches is collected; the history keeps the item and
\* the player before and after the upgrade
collect(w, item) ==
    [applyUpgrade(w, item.type) EXCEPT !.log.collected =
        Append(@, [type |-> item.type, t |-> w.now, item |-> item,
                   before |-> w.player,
                   after |-> applyUpgrade(w, item.type).player])]

\* variant: the expiry test reads the duration of an upgrade
expired_UpgradeDuration(w, item) == w.now - item.creationTime > UPGRADE_DURATION

\* the expiry test of items.filter: now - item.creationTime > ITEM_LIFETIME
expired(w, item) == w.now - item.creationTime > ITEM_LIFETIME

\* 3. the callback of items.filter over the items `its' still to test
RECURSIVE ItemsFilter(_, _, _)
ItemsFilter(w, its, kept) ==
    IF its = <<>> THEN [w EXCEPT !.items = kept]
    ELSE IF expired(w, Head(its))
    THEN ItemsFilter([w EXCEPT !.log.expired = @ + 1,
                               !.log.lapsed = Append(@, Head(its))], Tail(its), kept)
    ELSE IF Touching(w.player, Head(its), w.player.size, Head(its).size)
    THEN ItemsFilter(collect(w, Head(its)), Tail(its), kept)
    ELSE ItemsFilter(w, Tail(its), Append(kept, Head(its)))

\* 3. item expiry and collection
Collecting(w) == ItemsFilter(w, w.items, <<>>)

\* damage of one bullet hit at a multiplier (in tenths)
bulletDamage(mult) == (BASE_DAMAGE * mult) \div 10

\* variant: a zombie brought to exactly 0 is kept
isDead_Strict(health) == health < 0

\* whether a hit zombie is removed: zombie.health <= 0
isDead(health) == health <= 0

\* the history of one hit
hitRecord(w, damage, dead) ==
    [t |-> w.now, mult |-> w.player.bulletDamageMultiplier, damage |-> damage,
     boostEnd |-> w.player.damageBoostEndTime, killed |-> dead]

\* variant: the kill branch scores and drops the item but keeps the dead
\* zombie, which the later bullets of the pass meet again
killedBy_Kept(r, zombie, damage, drop) ==
    [r EXCEPT
       !.w = [r.w EXCEPT
                !.score = @ + SCORE_PER_KILL,
                !.items = IF drop # "none"
                          THEN Append(@, NewItem(zombie.x, zombie.y, Px(ITEM_SIZE),
                                                 drop, r.w.now))
                          ELSE @,
                !.log.dropped = IF drop # "none" THEN @ + 1 ELSE @,
                !.log.hitLog = Append(@, hitRecord(r.w, damage, TRUE)),
                !.log.killed =
                    Append(@, Append(zombie.hits,
                                     [damage |-> damage, gain |-> SCORE_PER_KILL]))],
       !.kept = Append(@, [zombie EXCEPT
                             !.health = @ - damage,
                             !.hits = Append(@, [damage |-> damage,
                                                 gain |-> SCORE_PER_KILL])]),
       !.damaged = @ + 1]

\* the kill branch: the score, the item drop, the zombie removed, `hit' left as it is
killedBy(r, zombie, damage, drop) ==
    [r EXCEPT
       !.w = [r.w EXCEPT
                !.score = @ + SCORE_PER_KILL,
                !.items = IF drop # "none"
                          THEN Append(@, NewItem(zombie.x, zombie.y, Px(ITEM_SIZE),
                                                 drop, r.w.now))
                          ELSE @,
                !.log.dropped = IF drop # "none" THEN @ + 1 ELSE @,
                !.log.hitLog = Append(@, hitRecord(r.w, damage, TRUE)),
                !.log.killed =
                    Append(@, Append(zombie.hits,
                                     [damage |-> damage, gain |-> SCORE_PER_KILL]))],
       !.damaged = @ + 1]

\* variant: a hit that leaves the zombie alive scores as well
woundedBy_Scoring(r, zombie, damage) ==
    [r EXCEPT
       !.w = [r.w EXCEPT !.score = @ + SCORE_PER_KILL,
                         !.log.hitLog = Append(@, hitRecord(r.w, damage, FALSE))],
       !.kept = Append(@, [zombie EXCEPT
                             !.health = @ - damage,
                             !.hits = Append(@, [damage |-> damage, gain |-> 0])]),
       !.hit = TRUE,
       !.damaged = @ + 1]

\* the other branch: the zombie kept with its health reduced, hit = true
woundedBy(r, zombie, damage) ==
    [r EXCEPT
       !.w = [r.w EXCEPT !.log.hitLog = Append(@, hitRecord(r.w, damage, FALSE))],
       !.kept = Append(@, [zombie EXCEPT
                             !.health = @ - damage,
                             !.hits = Append(@, [damage |-> damage, gain |-> 0])]),
       !.hit = TRUE,
       !.damaged = @ + 1]

\* a hit of `damage' on a zombie
hitBy(r, zombie, damage, drop) ==
    IF isDead(zombie.health - damage)
    THEN killedBy(r, zombie, damage, drop)
    ELSE woundedBy(r, zombie, damage)

\* 4. the callback of zombies.filter for one bullet and one zombie;
\*    r = [w, kept, hit, damaged] is the state of the pass for this bullet
ZombieVsBullet(r, bullet, zombie, drop) ==
    IF Touching(bullet, zombie, bullet.size, zombie.size)
    THEN hitBy(r, zombie, bulletDamage(r.w.player.bulletDamageMultiplier), drop)
    ELSE [r EXCEPT !.kept = Append(@, zombie)]

\* zombies.filter for one bullet, over the zombies `zs' still to test
RECURSIVE ZombiesFilter(_, _, _, _)
ZombiesFilter(r, bullet, zs, drop) ==
    IF zs = <<>> THEN r
    ELSE ZombiesFilter(ZombieVsBullet(r, bullet, Head(zs), drop), bullet, Tail(zs), drop)

\* variant: a bullet that hit nothing is kept wherever it is
keepBullet_HitOnly(hit, bullet) == ~hit

\* whether bullets.filter keeps a bullet
keepBullet(hit, bullet) == ~hit /\ ~isOffScreen(bullet)

\* the history of the pass r of one bullet: the zombies it was tested against
\* and those it removed
passRecord(r, bullet) ==
    [damaged |-> r.damaged, kept |-> keepBullet(r.hit, bullet),
     off |-> isOffScreen(bullet),
     tested |-> Len(r.w.zombies), killed |-> Len(r.w.zombies) - Len(r.kept)]

\* the session after the pass r of one bullet over the zombies
afterPass(r, bullet) ==
    [r.w EXCEPT !.zombies = r.kept,
                !.log.bulletLog = Append(@, passRecord(r, bullet))]

RECURSIVE BulletsFilter(_, _, _, _)

\* the rest of bullets.filter after the pass r of the bullet at the head of bs
nextBullet(r, bs, kept, drop) ==
    BulletsFilter(afterPass(r, Head(bs)), Tail(bs),
                  IF keepBullet(r.hit, Head(bs)) THEN Append(kept, Head(bs)) ELSE kept,
                  drop)

\* 4. bullets.filter, over the bullets `bs' still to test
BulletsFilter(w, bs, kept, drop) ==
    IF bs = <<>> THEN [w EXCEPT !.bullets = kept]
    ELSE nextBullet(ZombiesFilter([w |-> w, kept |-> <<>>, hit |-> FALSE, damaged |-> 0],
                                  Head(bs), w.zombies, drop),
                    bs, kept, drop)

\* 4. collision detection, bullet against zombie
Colliding(w, drop) ==
    BulletsFilter([w EXCEPT !.log.zombies0 = Len(w.zombies),
                            !.log.bullets0 = Len(w.bullets),
                            !.log.items0 = Len(w.items)],
                  w.bullets, <<>>, drop)

\* 5. check game over
CheckGameOver(w) ==
    IF w.player.health <= 0 THEN gameOver(w, 5) ELSE w

\* updateGame
updateGame(w, sp, drop) ==
    IF w.isGameOver THEN w
    ELSE [CheckGameOver(Colliding(Collecting(UpdateEntities(Spawning(w, sp))), drop))
          EXCEPT !.log.ran = TRUE]

----------------------------------------------------------------------------
(* The callbacks of the page *)

NoKeys ==
    [w |-> FALSE, a |-> FALSE, s |-> FALSE, d |-> FALSE,
     up |-> FALSE, down |-> FALSE, left |-> FALSE, right |-> FALSE]

NoJoystick == [active |-> FALSE, dx |-> 0, dy |-> 0]

\* variant: the handles are cancelled and no frame is requested
Reschedule_NoRequest(frames, cancel) == frames \ cancel

\* requestAnimationFrame(gameLoop) after cancelAnimationFrame of each handle in `cancel'
Reschedule(frames, cancel) == (frames \ cancel) \cup {nextId}

\* variant: gameLoop requests the next frame whatever the flag says
RequestsNextFrame_Always(over_) == TRUE

\* the tail of gameLoop: whether another frame is requested
RequestsNextFrame(over_) == ~over_

\* the session a frame callback with handle id finds when the clock has advanced by d
AtFrame(id, d) ==
    [World EXCEPT !.now = now + d, !.pending = @ \ {id}, !.log.score0 = score,
                  !.log.last0 = lastZombieSpawnTime]

\* gameLoop, the frame callback with handle id, run when the clock has advanced by d;
\* sp and drop are what Math.random gives the spawn and the item drops of this tick
GameLoop(id, d, sp, drop) ==
    /\ id \in pending
    /\ nextId <= MaxHandle
    /\ \E w \in {updateGame(AtFrame(id, d), sp, drop)} :
           /\ player' = w.player
           /\ bullets' = w.bullets
           /\ zombies' = w.zombies
           /\ items' = w.items
           /\ score' = w.score
           /\ lastZombieSpawnTime' = w.lastZombieSpawnTime
           /\ isGameOver' = w.isGameOver
           /\ messageScore' = w.messageScore
           /\ messagesShown' = w.messagesShown
           /\ over' = w.over
           /\ log' = w.log
           /\ drops' = IF w.log.dropped > 0 THEN drops + 1 ELSE drops
           /\ kills' = kills + (Len(zombies) + w.log.spawned - Len(w.zombies))
           /\ IF RequestsNextFrame(w.isGameOver)
              THEN /\ gameLoopId' = nextId
                   /\ pending' = Reschedule(w.pending, {})
                   /\ nextId' = nextId + 1
              ELSE /\ pending' = w.pending
                   /\ UNCHANGED <<gameLoopId, nextId>>
    /\ now' = now + d
    /\ op' = "gameLoop"
    /\ streak' = 0
    /\ UNCHANGED <<canvas, keys, mouse, joystickState, starts, inputs>>

\* the draws of Math.random a tick can make: a spawn point when a spawn is due,
\* an item drop when a zombie dies
SpawnDraws(id, d) ==
    IF ~isGameOver /\ (now + d) - lastZombieSpawnTime > currentSpawnInterval(score)
    THEN SpawnChoices
    ELSE {CHOOSE sp \in SpawnChoices : TRUE}

DropDraws(id, d, sp) ==
    IF /\ ~isGameOver
       /\ drops < MaxDrops
       /\ zombies # <<>>
       /\ bullets # <<>> \/ mouse.isFiring
       /\ updateGame(AtFrame(id, d), sp, "none").log.killed # <<>>
    THEN DropChoices
    ELSE {"none"}

\* variant: initGame requests a frame without cancelling the old one
CancelledByInit_None == {}

\* the handles initGame cancels before it requests a frame
CancelledByInit == IF gameLoopId # 0 THEN {gameLoopId} ELSE {}

\* initGame, as called by handleStartAudioAndGame
InitGame ==
    /\ starts < MaxStarts
    /\ nextId <= MaxHandle
    /\ keys' = NoKeys
    /\ mouse' = [x |-> 0, y |-> 0, isFiring |-> FALSE]
    /\ joystickState' = NoJoystick
    /\ isGameOver' = FALSE
    /\ player' = NewPlayer(canvas.width \div 2, canvas.height \div 2, Px(PLAYER_SIZE))
    /\ bullets' = <<>>
    /\ zombies' = <<>>
    /\ items' = <<>>
    /\ score' = 0
    /\ lastZombieSpawnTime' = 0
    /\ messagesShown' = FALSE
    /\ pending' = Reschedule(pending, CancelledByInit)
    /\ gameLoopId' = nextId
    /\ nextId' = nextId + 1
    /\ starts' = starts + 1
    /\ over' = NotOver
    /\ log' = EmptyLog
    /\ op' = "initGame"
    /\ streak' = streak + 1
    /\ kills' = 0
    /\ UNCHANGED <<canvas, messageScore, now, inputs, drops>>

\* what an event listener leaves alone
Listener(name) ==
    /\ op' = name
    /\ streak' = 0
    /\ UNCHANGED <<starts, drops, kills, now, pending, nextId, gameLoopId>>

\* a press, a pointer move or a resize: counted
Input(name) ==
    /\ inputs < MaxInputs
    /\ inputs' = inputs + 1
    /\ Listener(name)

\* the release of what was pressed: not counted, there is one per press at most
Release(name) ==
    /\ inputs' = inputs
    /\ Listener(name)

\* the property of `keys' a key name sets
KeyField(key) ==
    CASE key = "ArrowUp" -> "up"
      [] key = "ArrowDown" -> "down"
      [] key = "ArrowLeft" -> "left"
      [] key = "ArrowRight" -> "right"
      [] OTHER -> key

\* the keydown listener
KeyDown(key) ==
    /\ ~isGameOver
    /\ ~keys[KeyField(key)]
    /\ keys' = [keys EXCEPT ![KeyField(key)] = TRUE]
    /\ Input("keydown")
    /\ UNCHANGED <<canvas, player, bullets, zombies, items, score, lastZombieSpawnTime,
                   isGameOver, mouse, joystickState, messageScore, messagesShown,
                   over, log>>

\* the keyup listener
KeyUp(key) ==
    /\ ~isGameOver
    /\ keys[KeyField(key)]
    /\ keys' = [keys EXCEPT ![KeyField(key)] = FALSE]
    /\ Release("keyup")
    /\ UNCHANGED <<canvas, player, bullets, zombies, items, score, lastZombieSpawnTime,
                   isGameOver, mouse, joystickState, messageScore, messagesShown,
                   over, log>>

\* points of the arena the pointer is moved to: the middle of the left edge
AimPoints == {[x |-> 0, y |-> canvas.height \div 2]}

\* getMousePos as the mousemove listener, the pointer at point pt of the arena
MouseMove(pt) ==
    /\ <<mouse.x, mouse.y>> # <<pt.x, pt.y>>
    /\ mouse' = [mouse EXCEPT !.x = pt.x, !.y = pt.y]
    /\ Input("mousemove")
    /\ UNCHANGED <<canvas, player, bullets, zombies, items, score, lastZombieSpawnTime,
                   isGameOver, keys, joystickState, messageScore, messagesShown,
                   over, log>>

\* the mousedown listener
MouseDown ==
    /\ ~isGameOver
    /\ ~mouse.isFiring
    /\ mouse' = [mouse EXCEPT !.isFiring = TRUE]
    /\ Input("mousedown")
    /\ UNCHANGED <<canvas, player, bullets, zombies, items, score, lastZombieSpawnTime,
                   isGameOver, keys, joystickState, messageScore, messagesShown,
                   over, log>>

\* the mouseup listener
MouseUp ==
    /\ mouse.isFiring
    /\ mouse' = [mouse EXCEPT !.isFiring = FALSE]
    /\ Release("mouseup")
    /\ UNCHANGED <<canvas, player, bullets, zombies, items, score, lastZombieSpawnTime,
                   isGameOver, keys, joystickState, messageScore, messagesShown,
                   over, log>>

\* resizeCanvas, the window giving a canvas of `size' pixels
ResizeCanvas(size) ==
    /\ canvas' = [width |-> Px(size), height |-> Px(size)]
    /\ player' = IF player.defined
                 THEN [player EXCEPT !.x = Px(size) \div 2, !.y = Px(size) \div 2]
                 ELSE player
    /\ mouse' = [mouse EXCEPT !.x = Px(size) \div 2, !.y = Px(size) \div 2]
    /\ <<canvas', player', mouse'>> # <<canvas, player, mouse>>
    /\ Input("resize")
    /\ UNCHANGED <<bullets, zombies, items, score, lastZombieSpawnTime, isGameOver,
                   keys, joystickState, messageScore, messagesShown, over, log>>

\* updateJoystick, the touch at <<dxRaw, dyRaw>> from the centre of the joystick:
\* the deflection, at most the radius, as a fraction of the radius in thousandths
updateJoystick(dxRaw, dyRaw) ==
    [active |-> TRUE,
     dx |-> RoundDiv(Min(Hypot(dxRaw, dyRaw), Px(JOYSTICK_RADIUS))
                        * Direction(dxRaw, dyRaw)[1], Px(JOYSTICK_RADIUS)),
     dy |-> RoundDiv(Min(Hypot(dxRaw, dyRaw), Px(JOYSTICK_RADIUS))
                        * Direction(dxRaw, dyRaw)[2], Px(JOYSTICK_RADIUS))]

\* where the joystick is touched, from its centre: the right edge, half way
\* to the right edge, and down to the right
JoystickPoints ==
    {<<Px(JOYSTICK_RADIUS), 0>>, <<Px(JOYSTICK_RADIUS) \div 2, 0>>, <<Px(30), Px(30)>>}

\* the touchstart listener of the joystick
JoystickStart(pt) ==
    /\ ~isGameOver
    /\ ~joystickState.active
    /\ joystickState' = updateJoystick(pt[1], pt[2])
    /\ Input("joystickstart")
    /\ UNCHANGED <<canvas, player, bullets, zombies, items, score, lastZombieSpawnTime,
                   isGameOver, keys, mouse, messageScore, messagesShown, over, log>>

\* the touchmove listener of the document, for the touch that holds the joystick
JoystickMove(pt) ==
    /\ ~isGameOver
    /\ joystickState.active
    /\ joystickState' = updateJoystick(pt[1], pt[2])
    /\ joystickState' # joystickState
    /\ Input("joystickmove")
    /\ UNCHANGED <<canvas, player, bullets, zombies, items, score, lastZombieSpawnTime,
                   isGameOver, keys, mouse, messageScore, messagesShown, over, log>>

\* the touchend listener of the document, for the touch that holds the joystick
JoystickEnd ==
    /\ ~isGameOver
    /\ joystickState.active
    /\ joystickState' = NoJoystick
    /\ Release("joystickend")
    /\ UNCHANGED <<canvas, player, bullets, zombies, items, score, lastZombieSpawnTime,
                   isGameOver, keys, mouse, messageScore, messagesShown, over, log>>

----------------------------------------------------------------------------
(* The page after its load listener has run: the canvas sized, no player yet *)

Init ==
    /\ \E size \in CanvasSizes :
          /\ canvas = [width |-> Px(size), height |-> Px(size)]
          /\ mouse = [x |-> Px(size) \div 2, y |-> Px(size) \div 2, isFiring |-> FALSE]
    /\ player = NoPlayer
    /\ bullets = <<>>
    /\ zombies = <<>>
    /\ items = <<>>
    /\ score = 0
    /\ lastZombieSpawnTime = 0
    /\ isGameOver = FALSE
    /\ gameLoopId = 0
    /\ keys = NoKeys
    /\ joystickState = NoJoystick
    /\ messageScore = -1
    /\ messagesShown = TRUE
    /\ now = Epoch
    /\ pending = {}
    /\ nextId = 1
    /\ starts = 0
    /\ inputs = 0
    /\ drops = 0
    /\ op = "load"
    /\ streak = 0
    /\ kills = 0
    /\ over = NotOver
    /\ log = EmptyLog

Next ==
    \/ \E id \in pending, d \in TickDeltas :
          \E sp \in SpawnDraws(id, d) :
             \E drop \in DropDraws(id, d, sp) : GameLoop(id, d, sp, drop)
    \/ InitGame
    \/ \E key \in InputKeys : KeyDown(key)
    \/ \E key \in InputKeys : KeyUp(key)
    \/ \E pt \in AimPoints : MouseMove(pt)
    \/ MouseDown
    \/ MouseUp
    \/ \E size \in CanvasSizes : ResizeCanvas(size)

Spec == Init /\ [][Next]_vars

----------------------------------------------------------------------------
(* A session in progress, taken between two ticks: the tick as a function   *)
(* of the session it finds.  The player stands at the centre of the arena   *)
(* and aims at the middle of the left edge; a zombie that came in from the  *)
(* left is one step short of contact and has never attacked; an item lies   *)
(* where an earlier zombie died, out of reach by less than one step.  The   *)
(* score is that of the zombies killed so far.  The clock advances by 1000  *)
(* or 1001 ms, which puts ticks on both sides of each delay of the program. *)

PlayedFrames == 22   \* frames requested before the session is taken up
PlayedTime == 20000  \* ms since page load when the session is taken up
PlayedKills == 3     \* zombies removed before the session is taken up

FineDeltas == {1000, 1001}               \* clock advance between two ticks
PlayedHealths == {10, MAX_HEALTH}        \* player.health
PlayedAges == {13999, 14000}             \* now - item.creationTime
PlayedZombieHealths == {10, ZOMBIE_HEALTH}
ItemTypes == {"triple_shot", "health_pack", "damage_boost"}

\* the item, at the middle of the left edge
PlayedItems ==
    {<<>>} \cup
    {<<NewItem(0, canvas.height \div 2, Px(ITEM_SIZE), type, now - age)>> :
        type \in ItemTypes, age \in PlayedAges}

\* the zombie, left of the arena at the height of the player
PlayedZombies ==
    {<<>>} \cup
    {<<[NewZombie(-Px(7), canvas.height \div 2, Px(ZOMBIE_SIZE))
         EXCEPT !.health = h]>> : h \in PlayedZombieHealths}

InProgress ==
    /\ \E size \in CanvasSizes :
          /\ canvas = [width |-> Px(size), height |-> Px(size)]
          /\ \E health \in PlayedHealths :
                player = [NewPlayer(Px(size) \div 2, Px(size) \div 2, Px(PLAYER_SIZE))
                            EXCEPT !.health = health, !.lastShotTime = Epoch]
          /\ \E isFiring \in BOOLEAN :
                mouse = [x |-> 0, y |-> Px(size) \div 2, isFiring |-> isFiring]
    /\ now = Epoch + PlayedTime
    /\ bullets = <<>>
    /\ zombies \in PlayedZombies
    /\ items \in PlayedItems
    /\ score = SCORE_PER_KILL * PlayedKills
    /\ kills = PlayedKills
    /\ lastZombieSpawnTime = now
    /\ isGameOver = FALSE
    /\ gameLoopId = PlayedFrames
    /\ pending = {PlayedFrames}
    /\ nextId = PlayedFrames + 1
    /\ \E held \in BOOLEAN : keys = [NoKeys EXCEPT !.a = held]
    /\ joystickState = NoJoystick
    /\ messageScore = -1
    /\ messagesShown = FALSE
    /\ starts = 1
    /\ inputs = 0
    /\ drops = 0
    /\ op = "gameLoop"
    /\ streak = 0
    /\ over = NotOver
    /\ log = EmptyLog

TickNext ==
    \/ \E id \in pending, d \in FineDeltas :
          \E sp \in SpawnDraws(id, d) :
             \E drop \in DropDraws(id, d, sp) : GameLoop(id, d, sp, drop)
    \/ InitGame
    \/ \E key \in InputKeys : KeyDown(key)
    \/ \E key \in InputKeys : KeyUp(key)
    \/ \E pt \in AimPoints : MouseMove(pt)
    \/ MouseDown
    \/ MouseUp
    \/ \E size \in CanvasSizes : ResizeCanvas(size)

TickSpec == InProgress /\ [][TickNext]_vars

----------------------------------------------------------------------------
(* A session late in the game, taken between two ticks, with the frames    *)
(* coming fast: the clock advances by 200, 201, 300 or 301 ms, on both     *)
(* sides of the two shot delays, and the score has brought the spawn       *)
(* interval down to its floor of 500 ms.  The player stands at the centre  *)
(* of the arena, has fired in the last tick and may hold a triple shot;    *)
(* the keyboard holds no key, one key or two, and the joystick is free or  *)
(* held half way to its right edge.                                        *)

LateKills == 13      \* zombies removed before the session is taken up
LateFrames == 23     \* frames requested before the session is taken up

RapidDeltas == {200, 201, 300, 301}      \* clock advance between two ticks
LateKeys == {{}, {"d"}, {"w", "d"}}      \* the keys held
LateTripleShots == {0, UPGRADE_DURATION \div 2}  \* ms of triple shot left, 0 for none

LateGame ==
    /\ now = Epoch + PlayedTime
    /\ \E size \in CanvasSizes :
          /\ canvas = [width |-> Px(size), height |-> Px(size)]
          /\ \E left \in LateTripleShots :
                player = [NewPlayer(Px(size) \div 2, Px(size) \div 2, Px(PLAYER_SIZE))
                            EXCEPT !.lastShotTime = now,
                                   !.tripleShotEndTime = IF left = 0 THEN 0 ELSE now + left,
                                   !.currentShotDelay = IF left = 0 THEN DEFAULT_SHOT_DELAY
                                                        ELSE TRIPLE_SHOT_DELAY]
          /\ \E isFiring \in BOOLEAN :
                mouse = [x |-> 0, y |-> Px(size) \div 2, isFiring |-> isFiring]
    /\ bullets = <<>>
    /\ zombies = <<>>
    /\ items = <<>>
    /\ score = SCORE_PER_KILL * LateKills
    /\ kills = LateKills
    /\ lastZombieSpawnTime = now
    /\ isGameOver = FALSE
    /\ gameLoopId = LateFrames
    /\ pending = {LateFrames}
    /\ nextId = LateFrames + 1
    /\ \E held \in LateKeys : keys = [k \in DOMAIN NoKeys |-> k \in held]
    /\ joystickState \in {NoJoystick, updateJoystick(Px(JOYSTICK_RADIUS) \div 2, 0)}
    /\ messageScore = -1
    /\ messagesShown = FALSE
    /\ starts = 1
    /\ inputs = 0
    /\ drops = 0
    /\ op = "gameLoop"
    /\ streak = 0
    /\ over = NotOver
    /\ log = EmptyLog

RapidNext ==
    \/ \E id \in pending, d \in RapidDeltas :
          \E sp \in SpawnDraws(id, d) :
             \E drop \in DropDraws(id, d, sp) : GameLoop(id, d, sp, drop)
    \/ MouseDown
    \/ MouseUp
    \/ \E pt \in JoystickPoints : JoystickStart(pt)
    \/ \E pt \in JoystickPoints : JoystickMove(pt)
    \/ JoystickEnd

RapidSpec == LateGame /\ [][RapidNext]_vars

----------------------------------------------------------------------------
(* Player.applyUpgrade as a function of the player and the type it is       *)
(* given: called on the player of a session in progress or late in the     *)
(* game, with the three item types and with names that are none of them.   *)

MaxUpgrades == 2     \* calls of applyUpgrade

UpgradeTypes == ItemTypes \cup {"shield", ""}

\* player.applyUpgrade(type); the history keeps the call as a collection
ApplyUpgrade(type) ==
    /\ player.defined
    /\ Len(log.collected) < MaxUpgrades
    /\ \E w \in {collect([World EXCEPT !.log = log],
                          NewItem(player.x, player.y, Px(ITEM_SIZE), type, now))} :
           /\ player' = w.player
           /\ log' = w.log
    /\ op' = "applyUpgrade"
    /\ UNCHANGED <<canvas, bullets, zombies, items, score, lastZombieSpawnTime,
                   isGameOver, gameLoopId, keys, mouse, joystickState, messageScore,
                   messagesShown, now, pending, nextId, starts, inputs, drops, streak,
                   kills, over>>

UpgradeInit == InProgress \/ LateGame

UpgradeNext == \E type \in UpgradeTypes : ApplyUpgrade(type)

UpgradeSpec == UpgradeInit /\ [][UpgradeNext]_vars

----------------------------------------------------------------------------
(* Session states, and what a restart is compared on *)

SessionState ==
    IF ~player.defined THEN "Idle"
    ELSE IF isGameOver THEN "GameOver"
    ELSE "Running"

\* the session state without the handle values: the number of pending
\* callbacks counts, the number the browser gave them does not
Session ==
    <<isGameOver, score, bullets, zombies, items, lastZombieSpawnTime, player,
      keys, mouse, joystickState, messagesShown, canvas, Cardinality(pending),
      pending = {gameLoopId}>>

RECURSIVE TotalDamage(_)
TotalDamage(hs) ==
    IF hs = <<>> THEN 0 ELSE Head(hs).damage + TotalDamage(Tail(hs))

AllDeal(hs, damage) == \A j \in 1..Len(hs) : hs[j].damage = damage

----------------------------------------------------------------------------
(* The claims *)

\* C1: in every reachable state the stored player.health is at least 0, also
\* after a tick in which several zombies in contact with the player attacked.
C1_HealthNeverNegative == player.health >= 0

\* C2: the session becomes GameOver only in the terminal check (phase 5) of a
\* tick, no other phase or operation sets the flag, and the session state only
\* changes Idle -> Running, Running -> GameOver or GameOver -> Running.
C2_GameOverOnlyInPhase5 ==
    [][SessionState' # SessionState =>
          /\ <<SessionState, SessionState'>> \in
                {<<"Idle", "Running">>, <<"Running", "GameOver">>,
                 <<"GameOver", "Running">>}
          /\ SessionState' = "GameOver" => (op' = "gameLoop" /\ over'.phase = 5)]_vars

\* C3: while the session is GameOver, player health and position, score and
\* the bullet, zombie and item collections are what they were when the session
\* became GameOver, through the rest of that tick and every later event.
C3_FrozenAfterGameOver == isGameOver => Entities(World) = over.snap[1]

\* C4: at most one tick callback is pending, none is pending while the session
\* is GameOver, and the only callback that can be pending is the one requested
\* last, so that a restart leaves no callback of the previous loop.
C4_OneLoop ==
    /\ Cardinality(pending) <= 1
    /\ isGameOver => pending = {}
    /\ pending \subseteq {gameLoopId}
    /\ op = "initGame" => pending = {gameLoopId}

\* a second start while the first loop was running, ticks in between
C4_Witness ==
    /\ op = "initGame"
    /\ starts >= 2
    /\ streak = 1
    /\ messageScore = -1
    /\ nextId > 3
    /\ pending = {gameLoopId}

\* C5: every bullet that damaged a zombie in the collision phase of the latest
\* tick was removed from the bullets in that tick, also when the hit killed.
C5_HittingBulletRemoved ==
    \A i \in 1..Len(log.bulletLog) :
        log.bulletLog[i].damaged > 0 => ~log.bulletLog[i].kept

\* C6: in the collision phase of a tick each bullet damages at most one zombie.
C6_OneZombiePerBullet ==
    \A i \in 1..Len(log.bulletLog) : log.bulletLog[i].damaged <= 1

\* C7: right after initGame the flag is false, the score 0, bullets, zombies
\* and items are empty, the last spawn time is reset, the player is at the
\* arena centre with MAX_HEALTH and both upgrade end times cleared, and one
\* tick callback is pending.
C7_InitGamePost ==
    op = "initGame" =>
        /\ ~isGameOver
        /\ score = 0
        /\ bullets = <<>> /\ zombies = <<>> /\ items = <<>>
        /\ lastZombieSpawnTime = 0
        /\ player.defined
        /\ player.x = canvas.width \div 2 /\ player.y = canvas.height \div 2
        /\ player.health = MAX_HEALTH
        /\ player.tripleShotEndTime = 0 /\ player.damageBoostEndTime = 0
        /\ gameLoopId # 0 /\ pending = {gameLoopId}

\* a restart of a session that had ended in GameOver
C7_Witness ==
    /\ op = "initGame"
    /\ starts >= 2
    /\ streak = 1
    /\ messageScore >= 0
    /\ ~isGameOver
    /\ player.health = MAX_HEALTH
    /\ pending = {gameLoopId}

\* C8: initGame called right after initGame leaves the session state as the
\* first call left it (the handle of the pending callback aside).
C8_InitGameIdempotent ==
    [][(op = "initGame" /\ op' = "initGame") => Session' = Session]_vars

\* a restart of a played session followed at once by another
C8_Witness ==
    /\ op = "initGame"
    /\ streak = 2
    /\ starts >= 3
    /\ Cardinality(pending) = 1

\* C9: a damage_boost collected at c sets damageBoostEndTime to
\* c + UPGRADE_DURATION, and every hit resolved at t is multiplied by 1.5 when
\* t < damageBoostEndTime and by 1 otherwise, the tick of the collection and
\* the tick the boost runs out included.
C9_BoostWindow ==
    /\ \A i \in 1..Len(log.collected) :
          log.collected[i].type = "damage_boost" =>
              player.damageBoostEndTime = log.collected[i].t + UPGRADE_DURATION
    /\ \A i \in 1..Len(log.hitLog) :
          LET h == log.hitLog[i]
          IN  h.mult = IF h.t < h.boostEnd THEN DAMAGE_BOOST_MULTIPLIER ELSE 10

\* C10: a zombie is removed exactly on the hit that brings its cumulative
\* damage to ZOMBIE_HEALTH or more: a live zombie has taken less and earned no
\* score, a removed one reached it on its last hit, the 3rd when every hit
\* dealt 10 and the 2nd when every hit dealt 15, and the score went up by 10 on
\* that hit and on no other.
C10_RemovedOnLethalHit ==
    /\ \A i \in 1..Len(zombies) :
          LET hs == zombies[i].hits
          IN  /\ TotalDamage(hs) < ZOMBIE_HEALTH
              /\ zombies[i].health = ZOMBIE_HEALTH - TotalDamage(hs)
              /\ \A j \in 1..Len(hs) : hs[j].gain = 0
    /\ \A k \in 1..Len(log.killed) :
          LET hs == log.killed[k]
              n == Len(hs)
          IN  /\ n >= 1
              /\ TotalDamage(hs) >= ZOMBIE_HEALTH
              /\ TotalDamage(SubSeq(hs, 1, n - 1)) < ZOMBIE_HEALTH
              /\ hs[n].gain = 10
              /\ \A j \in 1..(n - 1) : hs[j].gain = 0
              /\ AllDeal(hs, 10) => n = 3
              /\ AllDeal(hs, 15) => n = 2
    /\ log.ran => score = log.score0 + 10 * Len(log.killed)

\* a zombie removed by its second hit of 15
C10_Witness ==
    \E k \in 1..Len(log.killed) :
        AllDeal(log.killed[k], 15) /\ Len(log.killed[k]) = 2

\* a zombie removed by its third hit of 10
C10_ThreeHits ==
    \E k \in 1..Len(log.killed) :
        AllDeal(log.killed[k], 10) /\ Len(log.killed[k]) = 3

\* whether item `it' is an element of the sequence `its'
Among(it, its) == \E j \in 1..Len(its) : its[j] = it

\* whether the latest tick collected item `it'
Collected(it, l) == \E k \in 1..Len(l.collected) : l.collected[k].item = it

\* C11: an item the player does not touch is still in the items after every
\* tick run at most 14999 ms after its creation, an item the player touches
\* then is collected, and no item is in the items after a tick run 15001 ms
\* or more after its creation.
C11_ItemLifetime ==
    [][(op' = "gameLoop" /\ log'.ran) =>
          \A i \in 1..Len(items) :
              /\ now' - items[i].creationTime <= ITEM_LIFETIME - 1 =>
                    IF Touching(player', items[i], player'.size, items[i].size)
                    THEN Collected(items[i], log') /\ ~Among(items[i], items')
                    ELSE Among(items[i], items') /\ ~Collected(items[i], log')
              /\ now' - items[i].creationTime >= ITEM_LIFETIME + 1 =>
                    ~Among(items[i], items') /\ ~Collected(items[i], log')]_vars

\* an item removed by the tick run 15001 ms after its creation
C11_Witness ==
    \E k \in 1..Len(log.lapsed) : now - log.lapsed[k].creationTime = ITEM_LIFETIME + 1

\* an item out of reach kept by the tick run 14999 ms after its creation
C11_Survivor ==
    /\ log.ran
    /\ \E i \in 1..Len(items) : now - items[i].creationTime = ITEM_LIFETIME - 1

\* C12: an item whose remaining lifetime ITEM_LIFETIME - (now - creationTime)
\* is 0 or less at a tick is removed by that tick without its effect being
\* applied, at remaining lifetime exactly 0 too.
C12_RemovedAtZero ==
    [][(op' = "gameLoop" /\ log'.ran) =>
          \A i \in 1..Len(items) :
              ITEM_LIFETIME - (now' - items[i].creationTime) <= 0 =>
                  ~Among(items[i], items') /\ ~Collected(items[i], log')]_vars

\* C13: at the end of a tick no bullet of the collection is off-screen: a
\* bullet that is off-screen after its advance is removed by the tick, one
\* that hit nothing and is on-screen is kept, and the collection holds the
\* kept bullets and no other.
C13_NoBulletOffScreen ==
    (log.ran /\ op = "gameLoop") =>
        /\ \A i \in 1..Len(bullets) : ~isOffScreen(bullets[i])
        /\ \A k \in 1..Len(log.bulletLog) :
              /\ log.bulletLog[k].off => ~log.bulletLog[k].kept
              /\ (log.bulletLog[k].damaged = 0 /\ ~log.bulletLog[k].off)
                    => log.bulletLog[k].kept
        /\ Len(bullets) =
              Cardinality({k \in 1..Len(log.bulletLog) : log.bulletLog[k].kept})

\* a tick that removed a bullet gone off-screen and kept one still on-screen,
\* neither having hit a zombie
C13_Witness ==
    /\ log.ran /\ op = "gameLoop"
    /\ \E k \in 1..Len(log.bulletLog) :
          log.bulletLog[k].off /\ log.bulletLog[k].damaged = 0
    /\ \E k \in 1..Len(log.bulletLog) :
          log.bulletLog[k].kept /\ log.bulletLog[k].damaged = 0
    /\ bullets # <<>>

\* the scalar and the cross product of the velocities of two bullets
Dot(a, b) == a.vx * b.vx + a.vy * b.vy
Cross(a, b) == a.vx * b.vy - a.vy * b.vx

\* bullet b heads k * 0.35 rad off bullet c, k in {-1, 0, 1}: the products are
\* speed^2 * cos(0.35) and k * speed^2 * sin(0.35), up to the rounding of
\* the velocities to tenths of a pixel
HeadsOff(b, c, k) ==
    /\ Abs(1000 * Dot(c, b)
           - Px(BULLET_SPEED) * Px(BULLET_SPEED) * (IF k = 0 THEN 1000 ELSE COS_SPREAD))
         <= 3 * 1000 * Px(BULLET_SPEED)
    /\ Abs(1000 * Cross(c, b) - k * Px(BULLET_SPEED) * Px(BULLET_SPEED) * SIN_SPREAD)
         <= 3 * 1000 * Px(BULLET_SPEED)

RECURSIVE HealthGained(_)
HealthGained(cs) ==
    IF cs = <<>> THEN 0
    ELSE Head(cs).after.health - Head(cs).before.health + HealthGained(Tail(cs))

\* C15: player.health never exceeds MAX_HEALTH; a collected health_pack sets
\* it to min(MAX_HEALTH, health + 30) and leaves both upgrade end times as
\* they were, no other item changes it, and within a session the health after
\* a tick is the health before it, less 10 for each attack, plus what the
\* health packs of the tick added: nothing else raises it.
C15_HealthAtMostMax ==
    [][/\ player'.health <= MAX_HEALTH
       /\ \A k \in 1..Len(log'.collected) :
             LET c == log'.collected[k]
             IN  IF c.type = "health_pack"
                 THEN /\ c.after.health = Min(MAX_HEALTH, c.before.health + 30)
                      /\ c.after.tripleShotEndTime = c.before.tripleShotEndTime
                      /\ c.after.damageBoostEndTime = c.before.damageBoostEndTime
                 ELSE c.after.health = c.before.health
       /\ op' = "gameLoop" =>
             player'.health = player.health - ZOMBIE_DAMAGE * log'.attacks
                                + HealthGained(log'.collected)
       /\ op' \notin {"gameLoop", "initGame"} => player'.health = player.health]_vars

\* a health pack collected at a health above 70: the sum is cut to MAX_HEALTH
C15_Witness ==
    \E k \in 1..Len(log.collected) :
        /\ log.collected[k].type = "health_pack"
        /\ log.collected[k].before.health + HEALTH_RESTORED > MAX_HEALTH
        /\ player.health <= MAX_HEALTH

\* C16: the score is never negative and always 10 times the number of zombies
\* removed since the last initGame; within a session it never decreases, a
\* tick raises it by 10 for each zombie it removes, and no listener changes it.
C16_ScoreCountsKills ==
    [][/\ score' >= 0
       /\ score' = 10 * kills'
       /\ op' # "initGame" =>
             /\ score' >= score
             /\ score' - score = 10 * (kills' - kills)
       /\ op' \notin {"gameLoop", "initGame"} => score' = score]_vars

\* a session with two zombies removed and another still wounded
C16_Witness ==
    /\ op = "gameLoop"
    /\ kills >= 2
    /\ score = 20
    /\ \E i \in 1..Len(zombies) : zombies[i].hits # <<>>

\* C17: whenever the session is GameOver (its tick has completed), the score
\* shown by the game-over message is the score of the session, also when
\* zombies were killed in the collision phase of the tick the player died in.
C17_MessageCarriesFinalScore == isGameOver => messageScore = score

\* the zombies removed by the first n passes of the latest tick
RECURSIVE KilledBefore(_, _)
KilledBefore(bl, n) ==
    IF n = 0 THEN 0 ELSE bl[n].killed + KilledBefore(bl, n - 1)

\* C18: in the collision pass of a tick every bullet of the collection is
\* tested once, against the zombies no earlier bullet of the pass removed;
\* each removed zombie was killed once, by the last hit of its history, which
\* alone earned the 10 points, and the pass creates at most one item for each.
C18_KilledOnce ==
    log.ran =>
        /\ Len(log.bulletLog) = log.bullets0
        /\ \A k \in 1..Len(log.bulletLog) :
              log.bulletLog[k].tested = log.zombies0 - KilledBefore(log.bulletLog, k - 1)
        /\ Len(log.killed) = KilledBefore(log.bulletLog, Len(log.bulletLog))
        /\ op = "gameLoop" => Len(zombies) = log.zombies0 - Len(log.killed)
        /\ score = log.score0 + 10 * Len(log.killed)
        /\ op = "gameLoop" => Len(items) - log.items0 <= Len(log.killed)
        /\ \A k \in 1..Len(log.killed) :
              /\ log.killed[k][Len(log.killed[k])].gain = 10
              /\ \A j \in 1..(Len(log.killed[k]) - 1) : log.killed[k][j].gain = 0

\* a pass in which a bullet removed a zombie and a later bullet was tested
\* against the zombies left
C18_Witness ==
    \E k \in 1..(Len(log.bulletLog) - 1) :
        /\ log.bulletLog[k].killed > 0
        /\ log.bulletLog[k + 1].tested >= 1
        /\ log.bulletLog[k + 1].tested < log.zombies0

\* the listeners that run between ticks
Handlers == {"keydown", "keyup", "mousemove", "mousedown", "mouseup", "resize"}

\* C19: no listener that runs between ticks (keyboard, mouse, resize) changes
\* the player, the bullets, the zombies, the items or the score; these change
\* only in a tick or in initGame.
C19_HandlersLeaveEntities ==
    [][op' \in Handlers => UNCHANGED <<player, bullets, zombies, items, score>>]_vars

\* C20: every attack of a tick is made by a zombie in contact with the player
\* more than ATTACK_DELAY after that zombie's last attack, takes exactly
\* ZOMBIE_DAMAGE from the health and sets the zombie's lastAttackTime to now;
\* a zombie in contact attacks once the delay has passed and not before; no
\* zombie attacks twice in a tick, and no lastAttackTime is ahead of the clock.
C20_AttackDelay ==
    /\ \A k \in 1..Len(log.attackLog) :
          LET e == log.attackLog[k]
          IN  /\ e.touching
              /\ e.t - e.last > ATTACK_DELAY
              /\ e.after = e.before - ZOMBIE_DAMAGE
              /\ e.stamp = e.t
              /\ \A j \in 1..(k - 1) : log.attackLog[j].zombie # e.zombie
    /\ \A k \in 1..Len(log.heldBack) :
          log.heldBack[k].t - log.heldBack[k].last <= ATTACK_DELAY
    /\ log.attacks = Len(log.attackLog)
    /\ \A i \in 1..Len(zombies) : zombies[i].lastAttackTime <= now

\* an attack made 1001 ms after the same zombie's last attack
C20_Witness ==
    \E k \in 1..Len(log.attackLog) :
        log.attackLog[k].t - log.attackLog[k].last = ATTACK_DELAY + 1

\* an attack held back exactly 1000 ms after the same zombie's last attack
C20_HeldBack ==
    \E k \in 1..Len(log.heldBack) :
        log.heldBack[k].t - log.heldBack[k].last = ATTACK_DELAY

\* the bullets the shots of a tick appended
RECURSIVE BulletsCreated(_)
BulletsCreated(sl) ==
    IF sl = <<>> THEN 0 ELSE Len(Head(sl).created) + BulletsCreated(Tail(sl))

\* C21: a tick fires at most one shot, and fires it exactly when the firing
\* input is held and now - lastShotTime exceeds the shot delay, 300 ms while
\* triple-shot is active and 200 ms otherwise; the bullets a tick adds are
\* those of its shot, and a shot sets lastShotTime to now, no shot leaves it
\* as it was.
C21_ShotDelay ==
    [][op' = "gameLoop" =>
          /\ Len(log'.shotLog) <= 1
          /\ log'.bullets0 - Len(bullets) = BulletsCreated(log'.shotLog)
          /\ log'.shotLog # <<>> <=>
                /\ mouse.isFiring
                /\ now' - player.lastShotTime >
                      (IF player.tripleShotEndTime > now' THEN 300 ELSE 200)
          /\ player'.lastShotTime =
                IF log'.shotLog # <<>> THEN now' ELSE player.lastShotTime]_vars

\* a shot fired 301 ms after the last one while triple-shot was active
C21_Witness ==
    \E i \in 1..Len(log.shotLog) :
        /\ log.shotLog[i].triple
        /\ log.shotLog[i].t - log.shotLog[i].last = TRIPLE_SHOT_DELAY + 1

\* a shot held back 200 ms after the last one, no triple-shot active
C21_HeldShot ==
    \E i \in 1..Len(log.heldShots) :
        /\ log.heldShots[i].delay = DEFAULT_SHOT_DELAY
        /\ log.heldShots[i].t - log.heldShots[i].last = DEFAULT_SHOT_DELAY

\* C22: a collected triple_shot sets tripleShotEndTime to now + UPGRADE_DURATION
\* and leaves damageBoostEndTime and health as they were, a collected
\* damage_boost sets damageBoostEndTime to now + UPGRADE_DURATION and leaves
\* tripleShotEndTime and health as they were, whether or not the effect was
\* still active; the damage multiplier is always 1 or 1.5 and a shot adds 1
\* or 3 bullets.
C22_UpgradeTimers ==
    /\ \A k \in 1..Len(log.collected) :
          LET c == log.collected[k]
          IN  /\ c.type = "triple_shot" =>
                    /\ c.after.tripleShotEndTime = c.t + UPGRADE_DURATION
                    /\ c.after.damageBoostEndTime = c.before.damageBoostEndTime
                    /\ c.after.health = c.before.health
              /\ c.type = "damage_boost" =>
                    /\ c.after.damageBoostEndTime = c.t + UPGRADE_DURATION
                    /\ c.after.tripleShotEndTime = c.before.tripleShotEndTime
                    /\ c.after.health = c.before.health
    /\ player.defined => player.bulletDamageMultiplier \in {10, DAMAGE_BOOST_MULTIPLIER}
    /\ \A i \in 1..Len(log.shotLog) : Len(log.shotLog[i].created) \in {1, 3}

\* an upgrade collected again while the effect of the first was active
C22_Witness ==
    \E k \in 1..Len(log.collected) :
        \/ /\ log.collected[k].type = "triple_shot"
           /\ log.collected[k].before.tripleShotEndTime > log.collected[k].t
        \/ /\ log.collected[k].type = "damage_boost"
           /\ log.collected[k].before.damageBoostEndTime > log.collected[k].t

\* C23: applyUpgrade called with a type that is none of triple_shot,
\* health_pack and damage_boost returns with every field of the player as it
\* was: health, both end times, shot delay and damage multiplier.
C23_UnknownTypeIgnored ==
    \A k \in 1..Len(log.collected) :
        log.collected[k].type \notin ItemTypes =>
            log.collected[k].after = log.collected[k].before

\* applyUpgrade called with a type that is no item type, on a player with a
\* triple shot running
C23_Witness ==
    /\ op = "applyUpgrade"
    /\ \E k \in 1..Len(log.collected) :
          /\ log.collected[k].type \notin ItemTypes
          /\ log.collected[k].before.tripleShotEndTime > now
          /\ player = log.collected[Len(log.collected)].after

\* C24: the spawn interval of a tick is 1500 - min(8 * score, 1000) ms; it is
\* between 500 and 1500 and does not grow with the score; the tick creates a
\* zombie exactly when now - lastZombieSpawnTime exceeds it, one and no more,
\* and then sets lastZombieSpawnTime to now.
C24_SpawnInterval ==
    [][op' = "gameLoop" =>
          /\ currentSpawnInterval(score) = 1500 - Min(8 * score, 1000)
          /\ \A s \in 0..250 :
                /\ currentSpawnInterval(s) \in 500..1500
                /\ currentSpawnInterval(s + 1) <= currentSpawnInterval(s)
          /\ log'.spawned =
                IF now' - lastZombieSpawnTime > 1500 - Min(8 * score, 1000) THEN 1 ELSE 0
          /\ log'.zombies0 = Len(zombies) + log'.spawned
          /\ lastZombieSpawnTime' =
                IF log'.spawned = 1 THEN now' ELSE lastZombieSpawnTime]_vars

\* a zombie created 501 ms after the last one, the interval at its floor
C24_Witness ==
    /\ log.spawned = 1
    /\ log.score0 >= 125
    /\ now - log.last0 = 501
    /\ lastZombieSpawnTime = now

\* no zombie created 500 ms after the last one, the interval at its floor
C24_NotDue ==
    /\ log.ran
    /\ log.spawned = 0
    /\ log.score0 >= 125
    /\ now - log.last0 = 500

\* C25: whenever the keys and the joystick make the player move, the step of
\* the tick has length PLAYER_SPEED, along an axis as on a diagonal, and the
\* player is within [size/2, width - size/2] x [size/2, height - size/2]
\* after the tick.
C25_UniformSpeed ==
    (log.ran /\ op = "gameLoop") =>
        /\ log.step # <<0, 0>> =>
              Abs(Hypot(log.step[1], log.step[2]) - Px(PLAYER_SPEED)) <= 1
        /\ player.x >= player.size \div 2
        /\ player.x <= canvas.width - player.size \div 2
        /\ player.y >= player.size \div 2
        /\ player.y <= canvas.height - player.size \div 2

\* C26: whenever the session is GameOver the health of the player is 0 or
\* less, also after the item resolution of the tick in which the flag was set.
C26_GameOverHealth == isGameOver => player.health <= 0

====
